---- MODULE Spec2Model ----
(***************************************************************************)
(* Model of the trivia game page script (src/script.js).                   *)
(*                                                                         *)
(* The file registers TWO DOMContentLoaded listeners (lines 4-237 and      *)
(* lines 243-498).  Both run at page load, and each registers its own      *)
(* "submit" and "click" listeners, so every submit event runs the first    *)
(* handleFormSubmit and then the second, and every click on "new player"   *)
(* runs the first newPlayer and then the second.  Event handlers run to    *)
(* completion on the single UI thread; the only suspension points are the  *)
(* outstanding fetch() requests, whose continuations are separate actions. *)
(*                                                                         *)
(* Text is modelled as a sequence of one-character strings so that trim,   *)
(* the cookie syntax and getCookie's split() are computed, not assumed.    *)
(***************************************************************************)
EXTENDS Integers, Sequences, FiniteSets, TLC

(***************************************************************************)
(* Bounds of the model.                                                    *)
(***************************************************************************)
MaxLedger == 3      \* entries the persisted ledger may hold
MaxRequests == 4    \* fetch() requests issued over a run
MaxFormQuestions == 2   \* question blocks of a form whose score is computed

(***************************************************************************)
(* Text helpers.                                                           *)
(***************************************************************************)
\* A JavaScript value that may be null / undefined.
Nothing == [has |-> FALSE, val |-> <<>>]
Some(v) == [has |-> TRUE, val |-> v]

\* JavaScript truthiness of a string-or-null value
Truthy(o) == o.has /\ o.val # <<>>

RECURSIVE TrimLeft(_)
TrimLeft(s) ==
    IF s # <<>> /\ Head(s) = " " THEN TrimLeft(Tail(s)) ELSE s

RECURSIVE TrimRight(_)
TrimRight(s) ==
    IF s # <<>> /\ s[Len(s)] = " " THEN TrimRight(SubSeq(s, 1, Len(s) - 1)) ELSE s

\* String.prototype.trim
Trim(s) == TrimRight(TrimLeft(s))

\* String.prototype.startsWith
StartsWith(s, p) == Len(s) >= Len(p) /\ SubSeq(s, 1, Len(p)) = p

\* position of the first occurrence of sep in s at or after i, 0 if none
RECURSIVE IndexOf(_, _, _)
IndexOf(s, sep, i) ==
    IF i + Len(sep) - 1 > Len(s) THEN 0
    ELSE IF SubSeq(s, i, i + Len(sep) - 1) = sep THEN i
    ELSE IndexOf(s, sep, i + 1)

\* String.prototype.split with a non-empty separator: the sequence of pieces
RECURSIVE Split(_, _)
Split(s, sep) ==
    LET k == IndexOf(s, sep, 1) IN
    IF k = 0 THEN << s >>
    ELSE << SubSeq(s, 1, k - 1) >> \o Split(SubSeq(s, k + Len(sep), Len(s)), sep)

\* decimal text of a non-negative integer, as template interpolation writes it
Digit(d) == CASE d = 0 -> "0" [] d = 1 -> "1" [] d = 2 -> "2" [] d = 3 -> "3"
              [] d = 4 -> "4" [] d = 5 -> "5" [] d = 6 -> "6" [] d = 7 -> "7"
              [] d = 8 -> "8" [] d = 9 -> "9"

RECURSIVE NumberToText(_)
NumberToText(n) ==
    IF n < 10 THEN << Digit(n) >> ELSE NumberToText(n \div 10) \o << Digit(n % 10) >>

Letters == { "A", "B", "a", "b" }

\* text content of markup assigned to innerHTML: "<" followed by a letter opens
\* a tag, which runs to the next ">" and contributes no text
RECURSIVE HtmlText(_)
HtmlText(s) ==
    IF s = <<>> THEN <<>>
    ELSE IF Head(s) = "<" /\ Len(s) >= 2 /\ s[2] \in Letters
         THEN LET k == IndexOf(s, << ">" >>, 1) IN
              IF k = 0 THEN <<>> ELSE HtmlText(SubSeq(s, k + 1, Len(s)))
         ELSE << Head(s) >> \o HtmlText(Tail(s))

(***************************************************************************)
(* Inputs.                                                                 *)
(***************************************************************************)
\* texts the player may type into the name field
Names ==
    { << " " >>,
      << " ", "B" >>,
      << "=", "B" >> }

\* questions the remote API may deliver: one correct and three incorrect answers
Questions ==
    { [question |-> "q1", correct_answer |-> "r", incorrect_answers |-> << "x", "y", "z" >>] }

\* the "results" array a response may carry: no question, or one
Batches == { <<>> } \cup { << q >> : q \in Questions }

\* the orders Array.prototype.sort with a random comparator may leave n items in
Orders(n) == { p \in [1..n -> 1..n] : \A i, j \in 1..n : i # j => p[i] # p[j] }

(***************************************************************************)
(* The browser's cookie store, restricted to the page's one cookie.        *)
(***************************************************************************)
CookieName == << "username" >>

\* assignment to document.cookie: parse "name=value; attr; attr", store or expire
CookieAssign(jar, str) ==
    LET parts == Split(str, << ";" >>)
        pair == parts[1]
        k == IndexOf(pair, << "=" >>, 1)
        nm == Trim(SubSeq(pair, 1, k - 1))
        val == Trim(SubSeq(pair, k + 1, Len(pair)))
        expired == \E i \in 2..Len(parts) : Trim(parts[i]) = << "expires=past" >>
    IN  IF k = 0 \/ nm # CookieName THEN jar
        ELSE IF expired THEN Nothing
        ELSE Some(val)

\* read of document.cookie
CookieRead(jar) ==
    IF jar.has THEN CookieName \o << "=" >> \o jar.val ELSE <<>>

\* the expiry attribute written by setCookie: now + days
Expires(days) == IF days > 0 THEN "expires=future" ELSE "expires=past"

setCookie(s, name, value, days) ==
    [s EXCEPT !.cookie =
        CookieAssign(s.cookie,
            name \o << "=" >> \o value \o << ";", " ", Expires(days), ";", " ", "path=/" >>)]

getCookie(s, name) ==
    LET rows == Split(CookieRead(s.cookie), << ";", " " >>)
        hits == { i \in 1..Len(rows) : StartsWith(rows[i], name \o << "=" >>) }
    IN  IF hits = {} THEN Nothing
        ELSE LET row == rows[CHOOSE i \in hits : \A j \in hits : i <= j]
                 pieces == Split(row, << "=" >>)
             IN  IF Len(pieces) < 2 \/ pieces[2] = <<>> THEN Nothing
                 ELSE Some(pieces[2])

deleteCookie(s, name) ==
    [s EXCEPT !.cookie =
        CookieAssign(s.cookie,
            name \o << "=", ";", " ", "expires=past", ";", " ", "path=/", ";" >>)]

(***************************************************************************)
(* State.                                                                  *)
(***************************************************************************)
VARIABLES
    loaded,         \* the DOMContentLoaded listeners have run
    cookie,         \* the browser's "username" cookie: Nothing or Some(value)
    storage,        \* localStorage "triviaScores": Nothing or Some(entries)
    input,          \* value of the #username field
    nameHidden,     \* #username carries class "hidden"
    btnHidden,      \* #new-player carries class "hidden"
    loadingHidden,  \* #loading-container carries class "hidden"
    questionHidden, \* #question-container carries class "hidden"
    rendered,       \* question blocks inside #question-container
    table,          \* rows of #score-table tbody
    pending,        \* fetch() requests issued and not yet settled
    issued          \* number of fetch() requests issued so far

vars == << loaded, cookie, storage, input, nameHidden, btnHidden, loadingHidden,
           questionHidden, rendered, table, pending, issued >>

\* the page state as one value, so that handlers compose as functions; log
\* collects, in order, the calls a submit listener makes while it runs
Page ==
    [ loaded |-> loaded, cookie |-> cookie, storage |-> storage, input |-> input,
      nameHidden |-> nameHidden, btnHidden |-> btnHidden,
      loadingHidden |-> loadingHidden, questionHidden |-> questionHidden,
      rendered |-> rendered, table |-> table, pending |-> pending, issued |-> issued,
      log |-> <<>> ]

\* the listener has made the call named effect
Did(s, effect) == [s EXCEPT !.log = Append(@, effect)]

Becomes(s) ==
    /\ loaded' = s.loaded
    /\ cookie' = s.cookie
    /\ storage' = s.storage
    /\ input' = s.input
    /\ nameHidden' = s.nameHidden
    /\ btnHidden' = s.btnHidden
    /\ loadingHidden' = s.loadingHidden
    /\ questionHidden' = s.questionHidden
    /\ rendered' = s.rendered
    /\ table' = s.table
    /\ pending' = s.pending
    /\ issued' = s.issued

(***************************************************************************)
(* Functions of the script.  Where the two copies of a function are the    *)
(* same text, one operator models both.                                    *)
(***************************************************************************)
\* a showLoading that toggles the indicator and only ever hides the questions
showLoading_NeverRestores(s, isLoading) ==
    [s EXCEPT !.loadingHidden = ~isLoading,
              !.questionHidden = IF isLoading THEN TRUE ELSE @]

showLoading(s, isLoading) ==
    [s EXCEPT !.loadingHidden = ~isLoading, !.questionHidden = isLoading]

\* showLoading(true), then fetch(): the request is outstanding on return
fetchQuestions(s) ==
    LET t == showLoading(s, TRUE) IN
    [t EXCEPT !.pending = t.pending \cup {t.issued + 1}, !.issued = t.issued + 1]

\* options built from the incorrect answers alone
createAnswerOptions_OmitsCorrect(correctAnswer, incorrectAnswers, questionIndex, order) ==
    LET kept == SelectSeq([i \in 1..Len(order) |-> order[i]], LAMBDA k : k # 1)
        allAnswers == [i \in 1..Len(kept) |-> incorrectAnswers[kept[i] - 1]]
    IN  [i \in 1..Len(allAnswers) |->
            [ name |-> questionIndex,
              value |-> allAnswers[i],
              correct |-> (allAnswers[i] = correctAnswer),
              checked |-> FALSE ]]

\* the radio inputs of one question, in the order given by order
createAnswerOptions(correctAnswer, incorrectAnswers, questionIndex, order) ==
    LET answers == << correctAnswer >> \o incorrectAnswers
        allAnswers == [i \in 1..Len(answers) |-> answers[order[i]]]
    IN  [i \in 1..Len(allAnswers) |->
            [ name |-> questionIndex,
              value |-> allAnswers[i],
              correct |-> (allAnswers[i] = correctAnswer),
              checked |-> FALSE ]]

\* orders[i] is the outcome of the random sort for question i
displayQuestions(s, questions, orders) ==
    [s EXCEPT !.rendered =
        [i \in 1..Len(questions) |->
            [ question |-> questions[i].question,
              options |-> createAnswerOptions(questions[i].correct_answer,
                                              questions[i].incorrect_answers,
                                              i - 1, orders[i]) ]]]

updateUIBasedOnSession(s) ==
    LET username == getCookie(s, CookieName) IN
    IF Truthy(username)
    THEN [s EXCEPT !.nameHidden = TRUE, !.btnHidden = FALSE]
    ELSE [s EXCEPT !.nameHidden = FALSE, !.btnHidden = TRUE]

checkUsername(s) ==
    LET savedUsername == getCookie(s, CookieName)
        t == IF Truthy(savedUsername) THEN [s EXCEPT !.input = savedUsername.val] ELSE s
    IN  updateUIBasedOnSession(t)

\* document.querySelectorAll("input[type=radio]:checked"), as (block, option) pairs
checkedInputs(s) ==
    { io \in UNION { { << i, o >> : o \in DOMAIN s.rendered[i].options } : i \in DOMAIN s.rendered } :
        s.rendered[io[1]].options[io[2]].checked }

\* a score that counts every checked input, whatever its data-correct
calculateScore_CountsAllChecked(s) ==
    Cardinality(checkedInputs(s))

\* number of checked radio inputs that carry data-correct="true"
calculateScore(s) ==
    Cardinality({ io \in checkedInputs(s) : s.rendered[io[1]].options[io[2]].correct })

\* JSON.parse(localStorage.getItem("triviaScores")) || []
readScores(s) == IF s.storage.has THEN s.storage.val ELSE <<>>

\* first copy: no guard on the username
saveScore1(s, username, score) ==
    LET scores == readScores(s) IN
    [s EXCEPT !.storage = Some(Append(scores, [username |-> username, score |-> score]))]

\* second copy: returns at once when the username is falsy
saveScore2(s, username, score) ==
    IF username = <<>> THEN s
    ELSE LET scores == readScores(s) IN
         [s EXCEPT !.storage = Some(Append(scores, [username |-> username, score |-> score]))]

\* one <tr>: the cells' text after `<td>${username}</td><td>${score}</td>`
\* has been assigned to innerHTML
scoreRow(entry) == << HtmlText(entry.username), HtmlText(NumberToText(entry.score)) >>

displayScores(s) ==
    LET scores == readScores(s) IN
    [s EXCEPT !.table = [i \in 1..Len(scores) |-> scoreRow(scores[i])]]

\* a first submit listener that stores the score before it sets the cookie
handleFormSubmit1_SavesFirst(s) ==
    LET username == Trim(s.input)
        score == calculateScore(s)
        s1 == Did(saveScore1(Did(s, "calculateScore"), username, score), "saveScore")
        s2 == IF username # <<>>
              THEN Did(setCookie(s1, CookieName, username, 7), "setCookie")
              ELSE s1
        s3 == Did(displayScores(s2), "displayScores")
    IN  Did(updateUIBasedOnSession(s3), "updateUIBasedOnSession")

\* first submit listener
handleFormSubmit1(s) ==
    LET username == Trim(s.input)
        s1 == IF username # <<>>
              THEN Did(setCookie(s, CookieName, username, 7), "setCookie")
              ELSE s
        score == calculateScore(s1)
        s2 == Did(saveScore1(Did(s1, "calculateScore"), username, score), "saveScore")
        s3 == Did(displayScores(s2), "displayScores")
    IN  Did(updateUIBasedOnSession(s3), "updateUIBasedOnSession")

\* a second submit listener that redraws the table before it stores the score
handleFormSubmit2_StaleTable(s) ==
    LET username == Trim(s.input) IN
    IF username = <<>> THEN s
    ELSE LET s1 == Did(setCookie(s, CookieName, username, 7), "setCookie")
             score == calculateScore(s1)
             s2 == Did(displayScores(Did(s1, "calculateScore")), "displayScores")
             s3 == Did(saveScore2(s2, username, score), "saveScore")
         IN  Did(updateUIBasedOnSession(s3), "updateUIBasedOnSession")

\* a second submit listener that starts a new round, as its commented-out
\* line would
handleFormSubmit2_RestartsRound(s) ==
    LET username == Trim(s.input) IN
    IF username = <<>> THEN s
    ELSE LET s1 == Did(setCookie(s, CookieName, username, 7), "setCookie")
             score == calculateScore(s1)
             s2 == Did(saveScore2(Did(s1, "calculateScore"), username, score), "saveScore")
             s3 == Did(displayScores(s2), "displayScores")
         IN  Did(updateUIBasedOnSession(fetchQuestions(s3)), "updateUIBasedOnSession")

\* second submit listener
handleFormSubmit2(s) ==
    LET username == Trim(s.input) IN
    IF username = <<>> THEN s
    ELSE LET s1 == Did(setCookie(s, CookieName, username, 7), "setCookie")
             score == calculateScore(s1)
             s2 == Did(saveScore2(Did(s1, "calculateScore"), username, score), "saveScore")
             s3 == Did(displayScores(s2), "displayScores")
         IN  Did(updateUIBasedOnSession(s3), "updateUIBasedOnSession")

\* a first click listener that also loads new questions, as the second does
newPlayer1_AlsoFetches(s) ==
    LET s1 == deleteCookie(s, CookieName)
        s2 == [s1 EXCEPT !.input = <<>>]
    IN  updateUIBasedOnSession(fetchQuestions(s2))

\* first click listener
newPlayer1(s) ==
    LET s1 == deleteCookie(s, CookieName)
        s2 == [s1 EXCEPT !.input = <<>>]
    IN  updateUIBasedOnSession(s2)

\* a second click listener that also forgets the stored scores
newPlayer2_ClearsScores(s) ==
    LET s1 == deleteCookie(s, CookieName)
        s2 == [s1 EXCEPT !.input = <<>>, !.nameHidden = FALSE, !.btnHidden = TRUE,
                         !.storage = Nothing]
        s3 == [s2 EXCEPT !.rendered =
                 [i \in DOMAIN s2.rendered |->
                    [s2.rendered[i] EXCEPT !.options =
                        [o \in DOMAIN s2.rendered[i].options |->
                            [s2.rendered[i].options[o] EXCEPT !.checked = FALSE]]]]]
        s4 == fetchQuestions(s3)
    IN  updateUIBasedOnSession(s4)

\* second click listener
newPlayer2(s) ==
    LET s1 == deleteCookie(s, CookieName)
        s2 == [s1 EXCEPT !.input = <<>>, !.nameHidden = FALSE, !.btnHidden = TRUE]
        s3 == [s2 EXCEPT !.rendered =
                 [i \in DOMAIN s2.rendered |->
                    [s2.rendered[i] EXCEPT !.options =
                        [o \in DOMAIN s2.rendered[i].options |->
                            [s2.rendered[i].options[o] EXCEPT !.checked = FALSE]]]]]
        s4 == fetchQuestions(s3)
    IN  updateUIBasedOnSession(s4)

\* body of one DOMContentLoaded listener
initGame(s) ==
    displayScores(fetchQuestions(checkUsername(s)))

\* the document as parsed from the markup, before any script has run;
\* cookie and localStorage outlive the document
freshDocument(s) ==
    [s EXCEPT !.loaded = FALSE, !.input = <<>>, !.rendered = <<>>, !.table = <<>>,
              !.pending = {}]

(***************************************************************************)
(* Initial state: the document has been parsed, no script has run yet, and *)
(* the browser holds neither cookie nor stored scores.  The classes the    *)
(* markup gives the four elements are not fixed by the script.             *)
(***************************************************************************)
Init ==
    /\ loaded = FALSE
    /\ cookie = Nothing
    /\ storage = Nothing
    /\ input = <<>>
    /\ nameHidden \in BOOLEAN
    /\ btnHidden \in BOOLEAN
    /\ loadingHidden \in BOOLEAN
    /\ questionHidden \in BOOLEAN
    /\ rendered = <<>>
    /\ table = <<>>
    /\ pending = {}
    /\ issued = 0

(***************************************************************************)
(* Actions: one per event the page handles.                                *)
(***************************************************************************)
\* DOMContentLoaded of a first load or of a reload: both listeners run in turn
PageLoad ==
    /\ issued + 2 <= MaxRequests
    /\ Becomes([initGame(initGame(freshDocument(Page))) EXCEPT !.loaded = TRUE])

\* the player edits the name field, which is possible while it is shown
TypeName(n) ==
    /\ loaded
    /\ ~nameHidden
    /\ input' = n
    /\ UNCHANGED << loaded, cookie, storage, nameHidden, btnHidden, loadingHidden,
                    questionHidden, rendered, table, pending, issued >>

\* the player picks option o of block i: the input becomes checked and the
\* browser unchecks every other radio input of the form with the same name
SelectAnswer(i, o) ==
    /\ loaded
    /\ ~questionHidden
    /\ i \in DOMAIN rendered
    /\ o \in DOMAIN rendered[i].options
    /\ rendered' =
         [j \in DOMAIN rendered |->
            [rendered[j] EXCEPT !.options =
                [k \in DOMAIN rendered[j].options |->
                    [rendered[j].options[k] EXCEPT !.checked =
                        IF j = i /\ k = o THEN TRUE
                        ELSE IF rendered[j].options[k].name = rendered[i].options[o].name
                             THEN FALSE
                             ELSE @]]]]
    /\ UNCHANGED << loaded, cookie, storage, input, nameHidden, btnHidden,
                    loadingHidden, questionHidden, table, pending, issued >>

\* a submit event: the first listener, then the second
Submit ==
    /\ loaded
    /\ Len(readScores(Page)) + 2 <= MaxLedger
    /\ Becomes(handleFormSubmit2(handleFormSubmit1(Page)))

\* a click on "new player" while it is shown: the first listener, then the second
NewPlayer ==
    /\ loaded
    /\ ~btnHidden
    /\ issued + 1 <= MaxRequests
    /\ Becomes(newPlayer2(newPlayer1(Page)))

\* a response arrives and parses: the first .then continuation of fetchQuestions
FetchSucceeds(id, results, orders) ==
    /\ id \in pending
    /\ Becomes(showLoading(
                 displayQuestions([Page EXCEPT !.pending = pending \ {id}], results, orders),
                 FALSE))

\* the response parses but has no "results": displayQuestions clears the
\* container, forEach throws on undefined, and the .catch continuation runs
FetchMalformed(id) ==
    /\ id \in pending
    /\ Becomes(showLoading(
                 [Page EXCEPT !.pending = pending \ {id}, !.rendered = <<>>],
                 FALSE))

\* fetch() or response.json() rejects: only the .catch continuation runs
FetchFails(id) ==
    /\ id \in pending
    /\ Becomes(showLoading([Page EXCEPT !.pending = pending \ {id}], FALSE))

Next ==
    \/ PageLoad
    \/ \E n \in Names : TypeName(n)
    \/ \E i \in DOMAIN rendered : \E o \in DOMAIN rendered[i].options : SelectAnswer(i, o)
    \/ Submit
    \/ NewPlayer
    \/ \E id \in 1..MaxRequests, results \in Batches :
         \E orders \in [1..Len(results) -> Orders(4)] : FetchSucceeds(id, results, orders)
    \/ \E id \in 1..MaxRequests : FetchMalformed(id)
    \/ \E id \in 1..MaxRequests : FetchFails(id)

Spec == Init /\ [][Next]_vars

\* The loading indicator depends on when requests are issued and settled, not
\* on the order of the options, so the behaviours checked for progress leave
\* the options in the delivered order.
DeliveredOrder == [i \in 1..4 |-> i]

\* request id settles: one of the three continuations of its fetch() runs
Settles(id) ==
    \/ \E results \in Batches :
         FetchSucceeds(id, results, [i \in 1..Len(results) |-> DeliveredOrder])
    \/ FetchMalformed(id)
    \/ FetchFails(id)

LiveNext ==
    \/ PageLoad
    \/ \E n \in Names : TypeName(n)
    \/ \E i \in DOMAIN rendered : \E o \in DOMAIN rendered[i].options : SelectAnswer(i, o)
    \/ Submit
    \/ NewPlayer
    \/ \E id \in 1..MaxRequests : Settles(id)

\* every outstanding request is eventually settled by the network
LiveSpec ==
    Init /\ [][LiveNext]_vars /\ \A id \in 1..MaxRequests : WF_vars(Settles(id))

(***************************************************************************)
(* Names with cookie and markup syntax in them: the same page, with more   *)
(* texts for the name field; the options stay in the delivered order and   *)
(* no answer is picked.                                                    *)
(***************************************************************************)
WideNames ==
    Names \cup { << "A", ";", "B" >>, << ";", "B" >>, << "<", "B", ">" >> }

NameNext ==
    \/ PageLoad
    \/ \E n \in WideNames : TypeName(n)
    \/ Submit
    \/ NewPlayer
    \/ \E id \in 1..MaxRequests : Settles(id)

NameSpec == Init /\ [][NameNext]_vars

(***************************************************************************)
(* Scoring on its own: the page has loaded, both requests have settled and *)
(* the last response rendered a form of up to MaxFormQuestions blocks; the *)
(* player then picks answers and submits.  Each block's correct answer may *)
(* stand at any of the four positions.                                     *)
(***************************************************************************)
Rotations == { [i \in 1..4 |-> ((i + k - 1) % 4) + 1] : k \in 0..3 }

ScoreForms ==
    UNION { [1..k -> Questions] : k \in 0..MaxFormQuestions }

ScoreInit ==
    \E results \in ScoreForms : \E orders \in [1..Len(results) -> Rotations] :
        LET s0 == [ loaded |-> TRUE, cookie |-> Nothing, storage |-> Nothing,
                    input |-> << " ", "B" >>, nameHidden |-> FALSE, btnHidden |-> TRUE,
                    loadingHidden |-> TRUE, questionHidden |-> FALSE,
                    rendered |-> <<>>, table |-> <<>>, pending |-> {}, issued |-> 2 ]
            s1 == displayQuestions(s0, results, orders)
        IN  /\ loaded = s1.loaded
            /\ cookie = s1.cookie
            /\ storage = s1.storage
            /\ input = s1.input
            /\ nameHidden = s1.nameHidden
            /\ btnHidden = s1.btnHidden
            /\ loadingHidden = s1.loadingHidden
            /\ questionHidden = s1.questionHidden
            /\ rendered = s1.rendered
            /\ table = s1.table
            /\ pending = s1.pending
            /\ issued = s1.issued

ScoreNext ==
    \/ \E i \in DOMAIN rendered : \E o \in DOMAIN rendered[i].options : SelectAnswer(i, o)
    \/ Submit

ScoreSpec == ScoreInit /\ [][ScoreNext]_vars

(***************************************************************************)
(* Rendering on its own: the page has loaded, one of its two requests has  *)
(* been rejected and the other is outstanding; its response carries up to  *)
(* MaxFormQuestions questions and is rendered, after which the player may  *)
(* pick answers.                                                           *)
(***************************************************************************)
RenderInit ==
    LET s0 == [ loaded |-> FALSE, cookie |-> Nothing, storage |-> Nothing,
                input |-> <<>>, nameHidden |-> FALSE, btnHidden |-> FALSE,
                loadingHidden |-> FALSE, questionHidden |-> FALSE,
                rendered |-> <<>>, table |-> <<>>, pending |-> {}, issued |-> 0 ]
        s1 == [initGame(initGame(freshDocument(s0))) EXCEPT !.loaded = TRUE]
        s2 == showLoading([s1 EXCEPT !.pending = s1.pending \ {2}], FALSE)
    IN  /\ loaded = s2.loaded
        /\ cookie = s2.cookie
        /\ storage = s2.storage
        /\ input = s2.input
        /\ nameHidden = s2.nameHidden
        /\ btnHidden = s2.btnHidden
        /\ loadingHidden = s2.loadingHidden
        /\ questionHidden = s2.questionHidden
        /\ rendered = s2.rendered
        /\ table = s2.table
        /\ pending = s2.pending
        /\ issued = s2.issued

RenderNext ==
    \/ \E results \in ScoreForms : \E orders \in [1..Len(results) -> Rotations] :
         FetchSucceeds(1, results, orders)
    \/ \E i \in DOMAIN rendered : \E o \in DOMAIN rendered[i].options : SelectAnswer(i, o)

RenderSpec == RenderInit /\ [][RenderNext]_vars

(***************************************************************************)
(* Properties.                                                             *)
(***************************************************************************)
\* the persisted ledger: the entries stored under "triviaScores"
Ledger == readScores(Page)

\* s is an initial segment of t
IsPrefix(s, t) == Len(s) <= Len(t) /\ SubSeq(t, 1, Len(s)) = s

\* C1: a submit event whose trimmed name is non-empty leaves the persisted
\* ledger exactly one entry longer once all submit listeners have run.
C1_ExactlyOneEntryPerSubmission ==
    [][(Submit /\ Trim(input) # <<>>) => Len(Ledger') = Len(Ledger) + 1]_vars

\* C2: no entry of the persisted ledger has an empty username, because a
\* submission whose trimmed name is empty appends nothing.
C2_NoEmptyUsernameInLedger ==
    \A i \in DOMAIN Ledger : Ledger[i].username # <<>>

\* C3: whenever some question request is outstanding, the loading indicator
\* is shown and the question area is hidden.
C3_LoadingShownWhileOutstanding ==
    pending # {} => (~loadingHidden /\ questionHidden)

\* C4: once the failure continuation of a fetch has run, no question is
\* rendered in the question area.
C4_FailureLeavesRoundEmpty ==
    [][(\E id \in pending : FetchFails(id)) => rendered' = <<>>]_vars

\* C5: once the page has loaded, and after every fully handled event, the name
\* field is hidden and the "new player" control shown exactly when the cookie
\* holds a session username; otherwise the field is shown and the control hidden.
C5_VisibilityFollowsSession ==
    loaded =>
        IF cookie.has /\ cookie.val # <<>>
        THEN nameHidden /\ ~btnHidden
        ELSE ~nameHidden /\ btnHidden

\* C6: the score table has exactly one row per entry of the persisted ledger,
\* in the ledger's order: row i is the row drawn for entry i.
C6_TableMatchesLedger ==
    loaded =>
        /\ Len(table) = Len(Ledger)
        /\ \A i \in DOMAIN Ledger : table[i] = scoreRow(Ledger[i])

\* a page whose table shows every entry after submissions filled the ledger
C6_Witness ==
    loaded /\ Len(Ledger) = MaxLedger /\ Len(table) = MaxLedger

\* C7: every step leaves the ledger it found as an initial segment of the
\* ledger it leaves: entries are never changed, removed or reordered.
C7_LedgerAppendOnly ==
    [][IsPrefix(Ledger, Ledger')]_vars

\* "new player" has cleared the session and the earlier entries are still stored
C7_Witness ==
    loaded /\ issued >= 3 /\ ~cookie.has /\ Len(Ledger) >= 2

\* C9: a click on "new player" ends with the cookie cleared, the name field
\* empty and shown, the control hidden, no radio input checked, and exactly
\* one new request issued.
C9_NewPlayerResets ==
    [][NewPlayer =>
          /\ ~cookie'.has
          /\ input' = <<>>
          /\ ~nameHidden'
          /\ btnHidden'
          /\ \A i \in DOMAIN rendered' : \A o \in DOMAIN rendered'[i].options :
                ~rendered'[i].options[o].checked
          /\ issued' = issued + 1
          /\ pending' = pending \cup {issued + 1}]_vars

\* a click was handled after a submission: the third request is the click's
C9_Witness ==
    /\ loaded /\ issued = 3 /\ 3 \in pending
    /\ Len(Ledger) >= 2 /\ ~cookie.has /\ input = <<>> /\ btnHidden

\* nothing is outstanding, the indicator is hidden, the questions are visible
Quiet == pending = {} /\ loadingHidden /\ ~questionHidden

\* C8: when every request is eventually settled, outstanding requests lead to
\* a state with none outstanding, the indicator hidden and the question area
\* visible, and that state lasts until a new request is issued.
C8_IndicatorClearedOnCompletion ==
    /\ [](pending # {} => <>Quiet)
    /\ [][(Quiet /\ pending' = {}) => Quiet']_vars

\* both requests of the page load have settled and the page is quiet
C8_Witness ==
    loaded /\ issued = 2 /\ Quiet

\* the blocks in which the checked option is the one tagged correct
CorrectlyAnswered ==
    { i \in DOMAIN rendered :
        \E o \in DOMAIN rendered[i].options :
            rendered[i].options[o].checked /\ rendered[i].options[o].correct }

\* C10: the computed score is the number of rendered questions whose checked
\* option is tagged correct, an integer from 0 to the number of rendered
\* questions, and every score a submission records lies in that range.
C10_ScoreWithinRenderedQuestions ==
    /\ [](/\ calculateScore(Page) = Cardinality(CorrectlyAnswered)
          /\ calculateScore(Page) \in 0..Len(rendered))
    /\ [][Submit =>
            \A i \in (Len(Ledger) + 1)..Len(Ledger') :
                Ledger'[i].score \in 0..Len(rendered)]_vars

\* every question of a full form answered correctly, and the score recorded
C10_Witness ==
    /\ Len(rendered) = MaxFormQuestions
    /\ Ledger # <<>>
    /\ Ledger[1].score = MaxFormQuestions

\* r is a rendering of the batch results: one block per question, four radio
\* inputs per block that share a group name no other block uses, one of them
\* tagged correct
WellRendered(results, r) ==
    /\ Len(r) = Len(results)
    /\ \A i \in DOMAIN r :
         /\ Len(r[i].options) = 4
         /\ \A o \in DOMAIN r[i].options : r[i].options[o].name = i - 1
         /\ Cardinality({ o \in DOMAIN r[i].options : r[i].options[o].correct }) = 1

\* C11: a response of K questions, each with one correct and three incorrect
\* answers, is rendered as K blocks of four radio inputs, the inputs of block
\* i in the group of index i alone, exactly one input per block tagged correct.
C11_BatchRenderedAsForm ==
    [][\A results \in ScoreForms : \A orders \in [1..Len(results) -> Rotations] :
          FetchSucceeds(1, results, orders) => WellRendered(results, rendered')]_vars

\* a full batch has been rendered
C11_Witness ==
    pending = {} /\ Len(rendered) = MaxFormQuestions

\* C12: after a submission with non-empty trimmed name n, the cookie holds n
\* as the session username and every entry the submission appended carries n.
C12_SessionAndEntriesCarryName ==
    [][(Submit /\ Trim(input) # <<>>) =>
          /\ cookie' = Some(Trim(input))
          /\ \A i \in (Len(Ledger) + 1)..Len(Ledger') :
                Ledger'[i].username = Trim(input)]_vars

\* C13: a reload leaves the persisted ledger as it was and draws a table whose
\* rows are the stored entries verbatim: same username, same score, same order.
C13_LedgerSurvivesReload ==
    [][PageLoad =>
          /\ Ledger' = Ledger
          /\ Len(table') = Len(Ledger')
          /\ \A i \in DOMAIN Ledger' :
                table'[i] = << Ledger'[i].username, NumberToText(Ledger'[i].score) >>]_vars

\* C14: at most one question request is outstanding at any time.
C14_AtMostOneRequestOutstanding ==
    Cardinality(pending) <= 1

\* what a rendering shows: each block's question and the texts of its options
Shown(r) ==
    [i \in DOMAIN r |->
        [ question |-> r[i].question,
          values |-> [o \in DOMAIN r[i].options |-> r[i].options[o].value] ]]

\* C15: a response to an older request does not replace what a newer request
\* rendered.  Stated for the two requests of a first page load: when only
\* request 1 is outstanding and questions are rendered, request 2 has succeeded
\* and they are its questions, which the success of request 1 must leave shown.
C15_StaleResponseIgnored ==
    [][\A results \in Batches : \A orders \in [1..Len(results) -> Orders(4)] :
          (/\ issued = 2 /\ pending = {1} /\ rendered # <<>>
           /\ FetchSucceeds(1, results, orders))
          => Shown(rendered') = Shown(rendered)]_vars

\* the calls of one submit listener, in the order the claim gives:
\* persist session, compute score, append entry, redraw table, refresh visibility
SubmitOrder ==
    << "setCookie", "calculateScore", "saveScore", "displayScores",
       "updateUIBasedOnSession" >>

\* C16: on a submit with a non-empty trimmed name each listener persists the
\* session, computes the score, appends the entry, redraws the table and
\* refreshes the visibility, in this order, so that within the event no append
\* comes before the session was persisted.
C16_SubmitEffectsInOrder ==
    [][(Submit /\ Trim(input) # <<>>) =>
          LET first == handleFormSubmit1(Page).log
              both == handleFormSubmit2(handleFormSubmit1(Page)).log
          IN  /\ first = SubmitOrder
              /\ both = SubmitOrder \o SubmitOrder
              /\ \A i \in DOMAIN both :
                    both[i] = "saveScore" => \E j \in 1..(i - 1) : both[j] = "setCookie"]_vars

\* a submission with a name has been handled by both listeners
C16_Witness ==
    loaded /\ cookie.has /\ Len(Ledger) >= 2 /\ Ledger[1].username # <<>>

C18_CookieHoldsTrimmedName ==
    cookie.has => (cookie.val # <<>> /\ Trim(cookie.val) = cookie.val)

\* C19: after a submission has stored the non-empty trimmed name u with
\* setCookie("username", u, 7), getCookie("username") returns exactly u.
C19_CookieRoundTrip ==
    [][(Submit /\ Trim(input) # <<>>) =>
          getCookie(Page', CookieName) = Some(Trim(input))]_vars

====
